---- MODULE Spec2Model ----
(***************************************************************************)
(* Model of packages/nextjs/src/config/loaders/wrappingLoader.ts: the      *)
(* webpack loader that replaces a page, API route or middleware file by a  *)
(* wrapper template linked with the user's code.                           *)
(*                                                                         *)
(* Text (paths, routes, template code) is a sequence of one-character      *)
(* strings, so that the regular-expression replacements of the loader are  *)
(* computed character by character.                                        *)
(***************************************************************************)
EXTENDS Integers, Sequences, FiniteSets, TLC

VARIABLES
  options,        \* the loader options of the build (this.getOptions())
  inv,            \* per invocation of wrappingLoader: its inputs and position
  calls,          \* per invocation: the calls of this.callback, in order
  warnings,       \* the console.warn diagnostics, in order
  templateCache,  \* the three template texts read at module load
  rt,             \* route classifier applied to one path
  sb,             \* template substitution applied to one template and route
  lk              \* wrapUserCode applied to one wrapper and one user module

vars == <<options, inv, calls, warnings, templateCache, rt, sb, lk>>

Unused == [phase |-> "unused"]

\* ------------------------------------------------------------------ bounds

\* Directory levels between pagesDir and the file.
MaxDepth == 2

\* ------------------------------------------------------------------ text

Min(S) == CHOOSE x \in S : \A y \in S : x <= y

\* p occurs in s at position i.
MatchAt(s, i, p) ==
  /\ i >= 1
  /\ i + Len(p) - 1 <= Len(s)
  /\ \A k \in 1..Len(p) : s[i + k - 1] = p[k]

\* String.prototype.startsWith
StartsWith(s, p) == MatchAt(s, 1, p)

EndsWith(s, p) == Len(s) >= Len(p) /\ MatchAt(s, Len(s) - Len(p) + 1, p)

\* s without the n characters from position i.
Cut(s, i, n) == SubSeq(s, 1, i - 1) \o SubSeq(s, i + n, Len(s))

RECURSIVE SplitOn(_, _)
SplitOn(s, seps) ==
  LET idx == {i \in 1..Len(s) : s[i] \in seps}
  IN  IF idx = {} THEN <<s>>
      ELSE LET i == Min(idx)
           IN  <<SubSeq(s, 1, i - 1)>> \o SplitOn(SubSeq(s, i + 1, Len(s)), seps)

RECURSIVE JoinWith(_, _)
JoinWith(segs, sep) ==
  IF segs = <<>> THEN <<>>
  ELSE IF Len(segs) = 1 THEN segs[1]
  ELSE segs[1] \o <<sep>> \o JoinWith(Tail(segs), sep)

\* ------------------------------------------------------------------ node:path

\* path.sep is "/" (posix) or "\" (win32); win32 accepts both as separators.
PathSeps(sep) == IF sep = "\\" THEN {"\\", "/"} ELSE {"/"}

Segments(p, sep) == SelectSeq(SplitOn(p, PathSeps(sep)), LAMBDA x : x # <<>>)

\* An absolute path from its segments (win32: the first segment is the drive).
AbsPath(sep, segs) ==
  IF sep = "/" THEN <<"/">> \o JoinWith(segs, sep) ELSE JoinWith(segs, sep)

CommonLen(a, b) ==
  LET ks == {k \in 0..Len(a) : k <= Len(b) /\ SubSeq(a, 1, k) = SubSeq(b, 1, k)}
  IN  CHOOSE k \in ks : \A j \in ks : j <= k

\* path.relative(from, to) of two absolute, normalised paths.
PathRelative(sep, from, to) ==
  LET f == Segments(from, sep)
      t == Segments(to, sep)
      k == CommonLen(f, t)
  IN  JoinWith([i \in 1..(Len(f) - k) |-> <<".", ".">>] \o SubSeq(t, k + 1, Len(t)), sep)

\* path.join(dir, '..', name)
PathJoinParent(sep, dir, name) ==
  LET d == Segments(dir, sep)
  IN  AbsPath(sep, SubSeq(d, 1, Len(d) - 1) \o <<name>>)

\* ------------------------------------------------------------------ route classifier

\* .replace(/(.*)/, '/$1')
AddSlash(s) == <<"/">> \o s

RECURSIVE ParenDepth(_, _)
\* -1 once a ")" closes nothing, otherwise the number of groups left open.
ParenDepth(s, d) ==
  IF s = <<>> THEN d
  ELSE IF Head(s) = "(" THEN ParenDepth(Tail(s), d + 1)
  ELSE IF Head(s) = ")" THEN (IF d = 0 THEN -1 ELSE ParenDepth(Tail(s), d - 1))
  ELSE ParenDepth(Tail(s), d)

\* new RegExp(`\\.(${pageExtensionRegex})`) throws a SyntaxError on unbalanced groups.
RegExpThrows(pageExtensionRegex) == ParenDepth(pageExtensionRegex, 0) # 0

\* The alternatives of the group, in the order the matcher tries them.
Alternatives(pageExtensionRegex) == SplitOn(pageExtensionRegex, {"|"})

\* .replace(new RegExp(`\\.(${pageExtensionRegex})`), ''): the leftmost match, and
\* at that position the first alternative that matches, is removed.
StripExtension(s, pageExtensionRegex) ==
  LET alts == Alternatives(pageExtensionRegex)
      at(i) == {k \in 1..Len(alts) : MatchAt(s, i + 1, alts[k])}
      hits == {i \in 1..Len(s) : s[i] = "." /\ at(i) # {}}
  IN  IF hits = {} THEN s
      ELSE LET i == Min(hits)
           IN  Cut(s, i, 1 + Len(alts[Min(at(i))]))

\* .replace(/\/index$/, '')
DropIndex(s) ==
  IF EndsWith(s, <<"/", "i", "n", "d", "e", "x">> (* /index *)) THEN SubSeq(s, 1, Len(s) - 6) ELSE s

\* .replace(/^$/, '/')
RootIfEmpty(s) == IF s = <<>> THEN <<"/">> ELSE s

\* const parameterizedRoute = path.relative(pagesDir, this.resourcePath)...
ParameterizedRoute(sep, pagesDir, resourcePath, pageExtensionRegex) ==
  RootIfEmpty(DropIndex(StripExtension(
    AddSlash(PathRelative(sep, pagesDir, resourcePath)), pageExtensionRegex)))

\* ------------------------------------------------------------------ template selector

SelectTemplateJsForgotten(sep, pagesDir, resourcePath, route) ==
  IF StartsWith(route, <<"/", "a", "p", "i">> (* /api *)) THEN "api"
  ELSE IF resourcePath = PathJoinParent(sep, pagesDir, <<"m", "i", "d", "d", "l", "e", "w", "a", "r", "e", ".", "t", "s">> (* middleware.ts *)) THEN "middleware"
  ELSE "page"

\* Which of the three templates the if / else if / else picks.
SelectTemplate(sep, pagesDir, resourcePath, route) ==
  IF StartsWith(route, <<"/", "a", "p", "i">> (* /api *)) THEN "api"
  ELSE IF \/ resourcePath = PathJoinParent(sep, pagesDir, <<"m", "i", "d", "d", "l", "e", "w", "a", "r", "e", ".", "j", "s">> (* middleware.js *))
          \/ resourcePath = PathJoinParent(sep, pagesDir, <<"m", "i", "d", "d", "l", "e", "w", "a", "r", "e", ".", "t", "s">> (* middleware.ts *))
    THEN "middleware"
  ELSE "page"

\* ------------------------------------------------------------------ inputs of the classifier

Platforms == {"/", "\\"}

ProjectSegs(sep) == IF sep = "/" THEN <<<<"a", "p", "p">>>> ELSE <<<<"C", ":">>, <<"a", "p", "p">>>>

PagesDirs(sep) ==
  {AbsPath(sep, ProjectSegs(sep) \o d) : d \in {<<<<"p", "a", "g", "e", "s">> (* pages *)>>, <<<<"s", "r", "c">>, <<"p", "a", "g", "e", "s">> (* pages *)>>}}

PageExtensionRegexes == {<<"t", "s", "x", "|", "t", "s", "|", "j", "s", "x", "|", "j", "s">> (* tsx|ts|jsx|js *), <<"j", "s", "|", "t", "s">> (* js|ts *)}

Stems == {<<"i", "n", "d", "e", "x">> (* index *), <<"u", "s", "e", "r", "s">> (* users *), <<"m", "y", "i", "n", "d", "e", "x">> (* myindex *), <<"d", "a", "t", "a", ".", "j", "s", "o", "n">> (* data.json *), <<"m", "i", "d", "d", "l", "e", "w", "a", "r", "e">> (* middleware *), <<"a", "p", "i", "a", "r", "y">> (* apiary *)}

Exts == {<<"t", "s">>, <<"j", "s">>, <<"t", "s", "x">>}

DirNames == {<<"a", "p", "i">>, <<"b", "l", "o", "g">> (* blog *), <<"i", "n", "d", "e", "x">> (* index *), <<"v", "1", ".", "j", "s">> (* v1.js *)}

DirSeqs(n) == UNION {[1..k -> DirNames] : k \in 0..n}

FileNames == {stem \o <<".">> \o ext : stem \in Stems, ext \in Exts}

\* The files webpack hands to the loader: those under pagesDir, and the
\* middleware files beside it.
ResourcePaths(sep, pagesDir) ==
  LET p == Segments(pagesDir, sep)
  IN  {AbsPath(sep, p \o ds \o <<f>>) : ds \in DirSeqs(MaxDepth), f \in FileNames}
      \cup {PathJoinParent(sep, pagesDir, f) : f \in {<<"m", "i", "d", "d", "l", "e", "w", "a", "r", "e", ".", "t", "s">> (* middleware.ts *), <<"m", "i", "d", "d", "l", "e", "w", "a", "r", "e", ".", "j", "s">> (* middleware.js *)}}

\* The file's extension is one the configured pattern accepts.
HasPageExtension(path, pageExtensionRegex) ==
  \E k \in 1..Len(Alternatives(pageExtensionRegex)) :
    EndsWith(path, <<".">> \o Alternatives(pageExtensionRegex)[k])

RtInit ==
  \E sep \in Platforms : \E dir \in PagesDirs(sep) :
    \E res \in ResourcePaths(sep, dir) : \E re \in PageExtensionRegexes :
      /\ HasPageExtension(res, re)
      /\ rt = [phase |-> "input", sep |-> sep, pagesDir |-> dir, resourcePath |-> res,
               pageExtensionRegex |-> re, route |-> <<>>, template |-> "none"]

\* Lines 50-80 on one file: the route, then the template chosen for it.
RtClassify ==
  /\ rt.phase = "input"
  /\ LET route == ParameterizedRoute(rt.sep, rt.pagesDir, rt.resourcePath,
                                     rt.pageExtensionRegex)
     IN  rt' = [rt EXCEPT !.phase = "classified", !.route = route,
                  !.template = SelectTemplate(rt.sep, rt.pagesDir, rt.resourcePath, route)]
  /\ UNCHANGED <<options, inv, calls, warnings, templateCache, sb, lk>>

InitRoute ==
  /\ RtInit
  /\ options = Unused /\ inv = Unused /\ calls = Unused /\ warnings = Unused
  /\ templateCache = Unused /\ sb = Unused /\ lk = Unused

NextRoute == RtClassify

SpecRoute == InitRoute /\ [][NextRoute]_vars

\* ------------------------------------------------------------------ String.prototype.replace

RECURSIVE GetSubstitution(_, _, _, _)
\* The replacement text of one match (ECMAScript GetSubstitution, no capture
\* groups): $$ is a dollar, $& the match, $` the text before it, $' the text
\* after it; a $ followed by anything else stands for itself.
GetSubstitution(matched, str, position, replacement) ==
  IF replacement = <<>> THEN <<>>
  ELSE IF Head(replacement) = "$" /\ Len(replacement) >= 2
    THEN LET c == replacement[2]
             rest == GetSubstitution(matched, str, position,
                                     SubSeq(replacement, 3, Len(replacement)))
         IN  CASE c = "$" -> <<"$">> \o rest
               [] c = "&" -> matched \o rest
               [] c = "`" -> SubSeq(str, 1, position - 1) \o rest
               [] c = "'" -> SubSeq(str, position + Len(matched), Len(str)) \o rest
               [] OTHER   -> <<"$">> \o GetSubstitution(matched, str, position,
                                                        Tail(replacement))
  ELSE <<Head(replacement)>> \o GetSubstitution(matched, str, position, Tail(replacement))

RECURSIVE ReplaceFrom(_, _, _, _)
\* The matches are found left to right, each starting where the last one ended.
ReplaceFrom(str, i, pattern, replacement) ==
  LET hits == {j \in i..Len(str) : MatchAt(str, j, pattern)}
  IN  IF hits = {} THEN SubSeq(str, i, Len(str))
      ELSE LET j == Min(hits)
           IN  SubSeq(str, i, j - 1) \o GetSubstitution(pattern, str, j, replacement)
               \o ReplaceFrom(str, j + Len(pattern), pattern, replacement)

\* str.replace(/pattern/g, replacement) for a pattern of literal characters.
ReplaceAll(str, pattern, replacement) == ReplaceFrom(str, 1, pattern, replacement)

RECURSIVE SpliceFrom(_, _, _, _)
SpliceFrom(str, i, pattern, text) ==
  LET hits == {j \in i..Len(str) : MatchAt(str, j, pattern)}
  IN  IF hits = {} THEN SubSeq(str, i, Len(str))
      ELSE LET j == Min(hits)
           IN  SubSeq(str, i, j - 1) \o text \o SpliceFrom(str, j + Len(pattern), pattern, text)

\* Every occurrence of pattern replaced by text, character for character.
SpliceAll(str, pattern, text) == SpliceFrom(str, 1, pattern, text)

RECURSIVE DoubleBackslashes(_)
DoubleBackslashes(s) ==
  IF s = <<>> THEN <<>>
  ELSE (IF Head(s) = "\\" THEN <<"\\", "\\">> ELSE <<Head(s)>>) \o DoubleBackslashes(Tail(s))

ROUTE_TOKEN == <<"_", "_", "R", "O", "U", "T", "E", "_", "_">> (* __ROUTE__ *)

TARGET_TOKEN == <<"_", "_", "S", "E", "N", "T", "R", "Y", "_", "W", "R", "A", "P", "P", "I", "N", "G", "_", "T", "A", "R", "G", "E", "T", "_", "F", "I", "L", "E", "_", "_">> (* __SENTRY_WRAPPING_TARGET_FILE__ *)

SENTRY_WRAPPER_MODULE_NAME == <<"s", "e", "n", "t", "r", "y", "-", "w", "r", "a", "p", "p", "e", "r", "-", "m", "o", "d", "u", "l", "e">> (* sentry-wrapper-module *)

WRAPPING_TARGET_MODULE_NAME == <<"_", "_", "S", "E", "N", "T", "R", "Y", "_", "W", "R", "A", "P", "P", "I", "N", "G", "_", "T", "A", "R", "G", "E", "T", "_", "F", "I", "L", "E", "_", "_", ".", "c", "j", "s">> (* __SENTRY_WRAPPING_TARGET_FILE__.cjs *)

\* parameterizedRoute.replace(/\\/g, '\\\\')
EscapeBackslashes(route) == ReplaceAll(route, <<"\\">>, <<"\\", "\\">>)

\* templateCode.replace(/__ROUTE__/g, parameterizedRoute.replace(/\\/g, '\\\\'))
InjectRoute(templateCode, route) ==
  ReplaceAll(templateCode, ROUTE_TOKEN, EscapeBackslashes(route))

\* templateCode.replace(/__SENTRY_WRAPPING_TARGET_FILE__/g, WRAPPING_TARGET_MODULE_NAME)
InjectTarget(templateCode) ==
  ReplaceAll(templateCode, TARGET_TOKEN, WRAPPING_TARGET_MODULE_NAME)

\* ------------------------------------------------------------------ inputs of the substitution

\* Characters of a route after the leading slash.
MaxRouteLen == 2

RouteAlphabet == {"a", "/", "\\", "$", "&", "'"}

SubstRoutes ==
  {<<"/">> \o r : r \in UNION {[1..n -> RouteAlphabet] : n \in 0..MaxRouteLen}}

\* Template texts with the route token zero, one and two times.
SubstTemplates ==
  { <<"e", "x", "p", "o", "r", "t", " ", "*", " ", "f", "r", "o", "m", " ", "'", "_", "_", "S", "E", "N", "T", "R", "Y", "_", "W", "R", "A", "P", "P", "I", "N", "G", "_", "T", "A", "R", "G", "E", "T", "_", "F", "I", "L", "E", "_", "_", "'">> (* export * from '__SENTRY_WRAPPING_TARGET_FILE__' *),
    <<"w", "(", "'", "_", "_", "R", "O", "U", "T", "E", "_", "_", "'", ")", ";", "e", "x", "p", "o", "r", "t", " ", "*", " ", "f", "r", "o", "m", " ", "'", "_", "_", "S", "E", "N", "T", "R", "Y", "_", "W", "R", "A", "P", "P", "I", "N", "G", "_", "T", "A", "R", "G", "E", "T", "_", "F", "I", "L", "E", "_", "_", "'">> (* w('__ROUTE__');export * from '__SENTRY_WRAPPING_TARGET_FILE__' *),
    <<"a", "(", "\"", "_", "_", "R", "O", "U", "T", "E", "_", "_", "\"", ")", ";", "b", "(", "\"", "_", "_", "R", "O", "U", "T", "E", "_", "_", "\"", ")">> (* a("__ROUTE__");b("__ROUTE__") *) }

SbInit ==
  \E t \in SubstTemplates : \E r \in SubstRoutes :
    sb = [phase |-> "input", template |-> t, route |-> r, routed |-> <<>>, code |-> <<>>]

\* Line 83.
SbInjectRoute ==
  /\ sb.phase = "input"
  /\ sb' = [sb EXCEPT !.phase = "routed", !.routed = InjectRoute(sb.template, sb.route)]
  /\ UNCHANGED <<options, inv, calls, warnings, templateCache, rt, lk>>

\* Line 86.
SbInjectTarget ==
  /\ sb.phase = "routed"
  /\ sb' = [sb EXCEPT !.phase = "done", !.code = InjectTarget(sb.routed)]
  /\ UNCHANGED <<options, inv, calls, warnings, templateCache, rt, lk>>

InitSubst ==
  /\ SbInit
  /\ options = Unused /\ inv = Unused /\ calls = Unused /\ warnings = Unused
  /\ templateCache = Unused /\ rt = Unused /\ lk = Unused

NextSubst == SbInjectRoute \/ SbInjectTarget

SpecSubst == InitSubst /\ [][NextSubst]_vars

\* C8: every occurrence of __ROUTE__ is replaced by the route with each backslash
\* doubled and every other character copied, and nothing else changes.
C8_LiteralSubstitution ==
  sb.phase \in {"routed", "done"} =>
    sb.routed = SpliceAll(sb.template, ROUTE_TOKEN, DoubleBackslashes(sb.route))


\* ------------------------------------------------------------------ module text

\* null / undefined
Null == <<"null">>

\* The characters of s from position i up to the next ch (or the end).
Until(s, i, ch) ==
  LET js == {j \in i..Len(s) : s[j] = ch}
  IN  IF js = {} THEN SubSeq(s, i, Len(s)) ELSE SubSeq(s, i, Min(js) - 1)

\* One statement of a module, as the link pass reads it.
ParseStatement(st) ==
  IF StartsWith(st, <<"e", "x", "p", "o", "r", "t", " ", "*", " ", "f", "r", "o", "m", " ", "'">> (* export * from ' *))
    THEN [kind |-> "exportAll", name |-> <<>>, from |-> Until(st, 16, "'")]
  ELSE IF StartsWith(st, <<"e", "x", "p", "o", "r", "t", " ", "{">> (* export { *))
    THEN LET n == Until(st, 9, "}")
         IN  [kind |-> "exportFrom", name |-> n, from |-> Until(st, 17 + Len(n), "'")]
  ELSE IF StartsWith(st, <<"e", "x", "p", "o", "r", "t", " ", "c", "o", "n", "s", "t", " ">> (* export const  *))
    THEN [kind |-> "exportNamed", name |-> Until(st, 14, "="), from |-> <<>>]
  ELSE IF StartsWith(st, <<"e", "x", "p", "o", "r", "t", " ", "d", "e", "f", "a", "u", "l", "t", " ">> (* export default  *))
    THEN [kind |-> "exportNamed", name |-> <<"d", "e", "f", "a", "u", "l", "t">> (* default *), from |-> <<>>]
  ELSE IF StartsWith(st, <<"i", "m", "p", "o", "r", "t", " ">> (* import  *))
    THEN [kind |-> "import", name |-> <<>>,
          from |-> Until(st, Len(Until(st, 1, "'")) + 2, "'")]
  ELSE IF StartsWith(st, <<"e", "x", "p", "o", "r", "t", "s", ".">> (* exports. *))
    THEN [kind |-> "cjsExport", name |-> Until(st, 9, "="), from |-> <<>>]
  ELSE IF StartsWith(st, <<")">>)
    THEN [kind |-> "syntaxError", name |-> <<>>, from |-> <<>>]
  ELSE [kind |-> "other", name |-> <<>>, from |-> <<>>]

\* The statements of a module text (separated by ";").
Parse(code) ==
  LET sts == SelectSeq(SplitOn(code, {";"}), LAMBDA x : x # <<>>)
  IN  [i \in 1..Len(sts) |-> ParseStatement(sts[i])]

Range(f) == {f[i] : i \in DOMAIN f}

\* ------------------------------------------------------------------ wrapUserCode

\* resolveId of the plugin 'virtualize-sentry-wrapper-modules'
ResolveId(id) ==
  IF id = SENTRY_WRAPPER_MODULE_NAME \/ id = WRAPPING_TARGET_MODULE_NAME THEN id ELSE Null

\* load returning null
NotLoaded == [code |-> Null, map |-> Null]

\* load of the plugin 'virtualize-sentry-wrapper-modules'
Load(id, wrapperCode, userModuleCode, userModuleSourceMap) ==
  IF id = SENTRY_WRAPPER_MODULE_NAME THEN [code |-> wrapperCode, map |-> Null]
  ELSE IF id = WRAPPING_TARGET_MODULE_NAME
    THEN [code |-> userModuleCode, map |-> userModuleSourceMap]
  ELSE NotLoaded

ExternalButWrapper(sourceId) == sourceId # SENTRY_WRAPPER_MODULE_NAME

\* external: sourceId => sourceId !== SENTRY_WRAPPER_MODULE_NAME && sourceId !== WRAPPING_TARGET_MODULE_NAME
External(sourceId) ==
  sourceId # SENTRY_WRAPPER_MODULE_NAME /\ sourceId # WRAPPING_TARGET_MODULE_NAME

\* commonjs({ transformMixedEsModules: true }) picks up the ids ending in .cjs or .js
CommonJsApplies(id) == EndsWith(id, <<".", "c", "j", "s">> (* .cjs *)) \/ EndsWith(id, <<".", "j", "s">>)

\* The link pass's view of one import source: external, or one of the two
\* virtual modules, or unresolved.
ResolveSource(source) ==
  IF External(source) THEN [external |-> TRUE, id |-> source]
  ELSE [external |-> FALSE, id |-> ResolveId(source)]

\* The ids of the graph: the entry, and the internal modules its statements
\* (and theirs) refer to. With two virtual modules two rounds close the set.
InternalDeps(id, wrapperCode, userModuleCode, userModuleSourceMap) ==
  LET m == Load(id, wrapperCode, userModuleCode, userModuleSourceMap)
  IN  IF m = NotLoaded THEN {}
      ELSE {ResolveSource(st.from).id :
              st \in {x \in Range(Parse(m.code)) :
                        /\ x.kind \in {"exportAll", "exportFrom", "import"}
                        /\ ~ResolveSource(x.from).external}}

GraphIds(wrapperCode, userModuleCode, userModuleSourceMap) ==
  LET d0 == {ResolveId(SENTRY_WRAPPER_MODULE_NAME)}
      d1 == d0 \cup UNION {InternalDeps(i, wrapperCode, userModuleCode,
                                        userModuleSourceMap) : i \in d0 \ {Null}}
      d2 == d1 \cup UNION {InternalDeps(i, wrapperCode, userModuleCode,
                                        userModuleSourceMap) : i \in d1 \ {Null}}
  IN  d2

RECURSIVE ExportedNames(_, _, _, _, _)
\* The names module id exports: its own, and through each export * of an
\* internal module that module's names except default. seen cuts cycles.
ExportedNames(id, seen, wrapperCode, userModuleCode, userModuleSourceMap) ==
  LET sts == Range(Parse(Load(id, wrapperCode, userModuleCode, userModuleSourceMap).code))
      own == {st.name : st \in {x \in sts : x.kind \in {"exportNamed", "exportFrom"}}}
      cjs == IF CommonJsApplies(id) /\ \E x \in sts : x.kind = "cjsExport"
               THEN {st.name : st \in {x \in sts : x.kind = "cjsExport"}} \cup {<<"d", "e", "f", "a", "u", "l", "t">> (* default *)}
               ELSE {}
      stars == {ResolveSource(st.from).id :
                  st \in {x \in sts : x.kind = "exportAll" /\ ~ResolveSource(x.from).external}}
  IN  own \cup cjs \cup
      UNION {ExportedNames(d, seen \cup {id}, wrapperCode, userModuleCode,
                           userModuleSourceMap) \ {<<"d", "e", "f", "a", "u", "l", "t">> (* default *)} : d \in stars \ (seen \cup {id})}

\* await rollup({...}) then rollupBuild.generate({ format: 'esm', sourcemap: 'hidden' }),
\* returning finalBundle.output[0]: the chunk of the entry module.
WrapUserCode(wrapperCode, userModuleCode, userModuleSourceMap) ==
  LET ids == GraphIds(wrapperCode, userModuleCode, userModuleSourceMap)
      mods == [i \in ids \ {Null} |-> Load(i, wrapperCode, userModuleCode, userModuleSourceMap)]
      sts == UNION {Range(Parse(mods[i].code)) : i \in DOMAIN mods}
      ext(kinds) == {st \in sts : st.kind \in kinds /\ ResolveSource(st.from).external}
  IN  IF Null \in ids THEN [ok |-> FALSE, err |-> "could not resolve"]
      ELSE IF \E st \in sts : st.kind = "syntaxError"
        THEN [ok |-> FALSE, err |-> "parse error"]
      ELSE [ok |-> TRUE,
            code |-> <<"bundle",
                     [entry |-> SENTRY_WRAPPER_MODULE_NAME,
                      namedExports |-> ExportedNames(SENTRY_WRAPPER_MODULE_NAME, {}, wrapperCode,
                                                     userModuleCode, userModuleSourceMap),
                      wildcardReexports |-> {st.from : st \in ext({"exportAll"})},
                      externals |-> {st.from : st \in ext({"exportAll", "exportFrom", "import"})},
                      modules |-> [i \in DOMAIN mods |-> mods[i].code]]>>,
            map |-> <<"map", [sources |-> [i \in DOMAIN mods |-> mods[i].map]]>>]

\* ------------------------------------------------------------------ inputs of the link pass

\* Statements of a user module.
MaxStatements == 2

UserStatements ==
  { <<"e", "x", "p", "o", "r", "t", " ", "c", "o", "n", "s", "t", " ", "a", "=", "1">> (* export const a=1 *), <<"e", "x", "p", "o", "r", "t", " ", "c", "o", "n", "s", "t", " ", "b", "=", "2">> (* export const b=2 *), <<"e", "x", "p", "o", "r", "t", " ", "d", "e", "f", "a", "u", "l", "t", " ", "h">> (* export default h *),
    <<"e", "x", "p", "o", "r", "t", " ", "{", "h", "e", "l", "p", "e", "r", "}", " ", "f", "r", "o", "m", " ", "'", ".", ".", "/", ".", ".", "/", "u", "t", "i", "l", "s", "/", "h", "e", "l", "p", "e", "r", "'">> (* export {helper} from '../../utils/helper' *), <<"i", "m", "p", "o", "r", "t", " ", "'", "f", "s", "'">> (* import 'fs' *),
    <<"e", "x", "p", "o", "r", "t", "s", ".", "c", "=", "3">> (* exports.c=3 *), <<"e", "x", "p", "o", "r", "t", " ", "*", " ", "f", "r", "o", "m", " ", "'", ".", "/", "o", "t", "h", "e", "r", "'">> (* export * from './other' *), <<")", "(">> }

UserModules ==
  {JoinWith(sts, ";") : sts \in UNION {[1..n -> UserStatements] : n \in 0..MaxStatements}}

\* Wrappers whose only reference to another module is the wildcard re-export
\* of the wrapping target.
LinkWrappers ==
  { <<"e", "x", "p", "o", "r", "t", " ", "*", " ", "f", "r", "o", "m", " ", "'", "_", "_", "S", "E", "N", "T", "R", "Y", "_", "W", "R", "A", "P", "P", "I", "N", "G", "_", "T", "A", "R", "G", "E", "T", "_", "F", "I", "L", "E", "_", "_", ".", "c", "j", "s", "'">> (* export * from '__SENTRY_WRAPPING_TARGET_FILE__.cjs' *),
    <<"e", "x", "p", "o", "r", "t", " ", "c", "o", "n", "s", "t", " ", "c", "o", "n", "f", "i", "g", "=", "w", "(", ")", ";", "e", "x", "p", "o", "r", "t", " ", "*", " ", "f", "r", "o", "m", " ", "'", "_", "_", "S", "E", "N", "T", "R", "Y", "_", "W", "R", "A", "P", "P", "I", "N", "G", "_", "T", "A", "R", "G", "E", "T", "_", "F", "I", "L", "E", "_", "_", ".", "c", "j", "s", "'">> (* export const config=w();export * from '__SENTRY_WRAPPING_TARGET_FILE__.cjs' *) }

SourceMaps == {Null, <<"map", <<"p", "a", "g", "e", ".", "t", "s", "x">> (* page.tsx *)>>}

LkInit ==
  \E w \in LinkWrappers : \E u \in UserModules : \E m \in SourceMaps :
    lk = [phase |-> "input", wrapperCode |-> w, userModuleCode |-> u,
          userModuleSourceMap |-> m, result |-> [ok |-> FALSE, err |-> "pending"]]

\* wrapUserCode settles: fulfilled with output[0], or rejected.
LkWrap ==
  /\ lk.phase = "input"
  /\ LET r == WrapUserCode(lk.wrapperCode, lk.userModuleCode, lk.userModuleSourceMap)
     IN  lk' = [lk EXCEPT !.phase = IF r.ok THEN "fulfilled" ELSE "rejected", !.result = r]
  /\ UNCHANGED <<options, inv, calls, warnings, templateCache, rt, sb>>

InitLink ==
  /\ LkInit
  /\ options = Unused /\ inv = Unused /\ calls = Unused /\ warnings = Unused
  /\ templateCache = Unused /\ rt = Unused /\ sb = Unused

NextLink == LkWrap

SpecLink == InitLink /\ [][NextLink]_vars

\* The names a module text exports by static export statements.
StaticExports(code) ==
  {st.name : st \in {x \in Range(Parse(code)) : x.kind \in {"exportNamed", "exportFrom"}}}

HasWildcard(code) == \E st \in Range(Parse(code)) : st.kind = "exportAll"

NInv == 2

Invocations == 1..NInv

\* The template files read at module load: each holds the two placeholders and
\* one wildcard re-export of the wrapping target.
TemplateAssets ==
  [api |-> <<"e", "x", "p", "o", "r", "t", " ", "d", "e", "f", "a", "u", "l", "t", " ", "a", "p", "i", "(", "'", "_", "_", "R", "O", "U", "T", "E", "_", "_", "'", ")", ";", "e", "x", "p", "o", "r", "t", " ", "*", " ", "f", "r", "o", "m", " ", "'", "_", "_", "S", "E", "N", "T", "R", "Y", "_", "W", "R", "A", "P", "P", "I", "N", "G", "_", "T", "A", "R", "G", "E", "T", "_", "F", "I", "L", "E", "_", "_", "'">> (* export default api('__ROUTE__');export * from '__SENTRY_WRAPPING_TARGET_FILE__' *),
   page |-> <<"e", "x", "p", "o", "r", "t", " ", "d", "e", "f", "a", "u", "l", "t", " ", "p", "a", "g", "e", "(", "'", "_", "_", "R", "O", "U", "T", "E", "_", "_", "'", ")", ";", "e", "x", "p", "o", "r", "t", " ", "*", " ", "f", "r", "o", "m", " ", "'", "_", "_", "S", "E", "N", "T", "R", "Y", "_", "W", "R", "A", "P", "P", "I", "N", "G", "_", "T", "A", "R", "G", "E", "T", "_", "F", "I", "L", "E", "_", "_", "'">> (* export default page('__ROUTE__');export * from '__SENTRY_WRAPPING_TARGET_FILE__' *),
   middleware |-> <<"e", "x", "p", "o", "r", "t", " ", "d", "e", "f", "a", "u", "l", "t", " ", "m", "w", "(", "'", "_", "_", "R", "O", "U", "T", "E", "_", "_", "'", ")", ";", "e", "x", "p", "o", "r", "t", " ", "*", " ", "f", "r", "o", "m", " ", "'", "_", "_", "S", "E", "N", "T", "R", "Y", "_", "W", "R", "A", "P", "P", "I", "N", "G", "_", "T", "A", "R", "G", "E", "T", "_", "F", "I", "L", "E", "_", "_", "'">> (* export default mw('__ROUTE__');export * from '__SENTRY_WRAPPING_TARGET_FILE__' *)]

\* value.includes(pattern)
Includes(value, pattern) == \E i \in 1..(Len(value) + 1) : MatchAt(value, i, pattern)

\* isMatchingPattern of @sentry/utils: a regular expression is tested, a string
\* must be equal (requireExactStringMatch) or contained. A regular expression
\* rule is /^prefix/.
IsMatchingPattern(value, pattern, requireExactStringMatch) ==
  IF pattern.type = "regexp" THEN StartsWith(value, pattern.text)
  ELSE IF requireExactStringMatch THEN value = pattern.text
  ELSE Includes(value, pattern.text)

\* stringMatchesSomePattern of @sentry/utils
StringMatchesSomePattern(testString, patterns, requireExactStringMatch) ==
  \E k \in 1..Len(patterns) :
    IsMatchingPattern(testString, patterns[k], requireExactStringMatch)

ExclusionRuleSets ==
  { <<>>,
    <<[type |-> "string", text |-> <<"/", "a", "p", "i", "/", "u", "s", "e", "r", "s">> (* /api/users *)], [type |-> "regexp", text |-> <<"/", "b", "r", "o", "k", "e", "n">> (* /broken *)]>> }

LoaderOptions ==
  {[sep |-> sep, pagesDir |-> AbsPath(sep, ProjectSegs(sep) \o <<<<"p", "a", "g", "e", "s">> (* pages *)>>),
    pageExtensionRegex |-> re, excludeServerRoutes |-> ex] :
     sep \in Platforms, re \in {<<"t", "s", "x", "|", "t", "s", "|", "j", "s", "x", "|", "j", "s">> (* tsx|ts|jsx|js *), <<"(">>}, ex \in ExclusionRuleSets}

\* The files of the build, each with its text and the source map of the
\* loader before this one.
LoaderFiles(opts) ==
  LET at(segs) == AbsPath(opts.sep, Segments(opts.pagesDir, opts.sep) \o segs)
  IN  { [resourcePath |-> at(<<<<"i", "n", "d", "e", "x", ".", "t", "s", "x">> (* index.tsx *)>>),
         userCode |-> <<"e", "x", "p", "o", "r", "t", " ", "d", "e", "f", "a", "u", "l", "t", " ", "P">> (* export default P *), userModuleSourceMap |-> Null],
        [resourcePath |-> at(<<<<"a", "p", "i">>, <<"u", "s", "e", "r", "s", ".", "t", "s">> (* users.ts *)>>),
         userCode |-> <<"e", "x", "p", "o", "r", "t", " ", "d", "e", "f", "a", "u", "l", "t", " ", "h", ";", "e", "x", "p", "o", "r", "t", " ", "c", "o", "n", "s", "t", " ", "c", "o", "n", "f", "i", "g", "=", "1">> (* export default h;export const config=1 *),
         userModuleSourceMap |-> <<"map", <<"u", "s", "e", "r", "s", ".", "t", "s">> (* users.ts *)>>],
        [resourcePath |-> PathJoinParent(opts.sep, opts.pagesDir, <<"m", "i", "d", "d", "l", "e", "w", "a", "r", "e", ".", "t", "s">> (* middleware.ts *)),
         userCode |-> <<"e", "x", "p", "o", "r", "t", " ", "c", "o", "n", "s", "t", " ", "m", "i", "d", "d", "l", "e", "w", "a", "r", "e", "=", "f">> (* export const middleware=f *),
         userModuleSourceMap |-> <<"map", <<"m", "i", "d", "d", "l", "e", "w", "a", "r", "e", ".", "t", "s">> (* middleware.ts *)>>],
        [resourcePath |-> at(<<<<"b", "r", "o", "k", "e", "n", ".", "j", "s">> (* broken.js *)>>),
         userCode |-> <<")", "(">>, userModuleSourceMap |-> Null] }

LoaderSyncNoSkip(opts, cache, resourcePath) ==
  IF RegExpThrows(opts.pageExtensionRegex)
    THEN [outcome |-> "throw", route |-> Null, template |-> "none", templateCode |-> Null]
  ELSE LET route == ParameterizedRoute(opts.sep, opts.pagesDir, resourcePath,
                                       opts.pageExtensionRegex)
           role == SelectTemplate(opts.sep, opts.pagesDir, resourcePath, route)
       IN  [outcome |-> "wrap", route |-> route, template |-> role,
            templateCode |-> InjectTarget(InjectRoute(cache[role], route))]

\* Lines 41-86, the part of wrappingLoader before the link pass: it throws
\* (new RegExp), or skips an excluded route, or prepares the wrapper text.
LoaderSync(opts, cache, resourcePath) ==
  IF RegExpThrows(opts.pageExtensionRegex)
    THEN [outcome |-> "throw", route |-> Null, template |-> "none", templateCode |-> Null]
  ELSE LET route == ParameterizedRoute(opts.sep, opts.pagesDir, resourcePath,
                                       opts.pageExtensionRegex)
           role == SelectTemplate(opts.sep, opts.pagesDir, resourcePath, route)
       IN  IF StringMatchesSomePattern(route, opts.excludeServerRoutes, TRUE)
             THEN [outcome |-> "skip", route |-> route, template |-> "none",
                   templateCode |-> Null]
           ELSE [outcome |-> "wrap", route |-> route, template |-> role,
                 templateCode |-> InjectTarget(InjectRoute(cache[role], route))]

CacheOverwritten(cache, role, templateCode) ==
  IF role = "none" THEN cache ELSE [cache EXCEPT ![role] = templateCode]

\* The templates are module-level constants: the loader assigns only its
\* local templateCode.
CacheAfterInject(cache, role, templateCode) == cache

\* One call of this.callback(err, code, map); threw: the host callback raised.
Call(err, code, map, threw) == [err |-> err, code |-> code, map |-> map, threw |-> threw]

FallbackCallTemplated(i, cbThrows) ==
  Call(Null, inv[i].templateCode, inv[i].userModuleSourceMap, cbThrows)

\* this.callback(null, userCode, userModuleSourceMap) of the catch handler
FallbackCall(i, cbThrows) ==
  Call(Null, inv[i].userCode, inv[i].userModuleSourceMap, cbThrows)

Idle ==
  [pc |-> "idle", resourcePath |-> Null, userCode |-> Null, userModuleSourceMap |-> Null,
   route |-> Null, template |-> "none", templateCode |-> Null, link |-> "none",
   result |-> [ok |-> FALSE, err |-> "none"], err |-> "none"]

Init ==
  /\ options \in LoaderOptions
  /\ inv = [i \in Invocations |-> Idle]
  /\ calls = [i \in Invocations |-> <<>>]
  /\ warnings = <<>>
  /\ templateCache = TemplateAssets
  /\ rt = Unused /\ sb = Unused /\ lk = Unused

\* wrappingLoader(userCode, userModuleSourceMap) up to its return: the options
\* are read, this.async() is called, and then the loader throws, or hands an
\* excluded file back, or starts wrapUserCode. Invocations are numbered in the
\* order in which webpack calls the loader.
Invoke(i, f) ==
  /\ inv[i].pc = "idle"
  /\ IF i = 1 THEN TRUE ELSE inv[i - 1].pc # "idle"
  /\ LET s == LoaderSync(options, templateCache, f.resourcePath)
         started == [inv[i] EXCEPT !.resourcePath = f.resourcePath, !.userCode = f.userCode,
                       !.userModuleSourceMap = f.userModuleSourceMap, !.route = s.route,
                       !.template = s.template, !.templateCode = s.templateCode]
     IN  /\ templateCache' = CacheAfterInject(templateCache, s.template, s.templateCode)
         /\ CASE s.outcome = "throw" ->
                   /\ inv' = [inv EXCEPT ![i] = [started EXCEPT !.pc = "threw",
                                                                !.err = "SyntaxError"]]
                   /\ UNCHANGED calls
              [] s.outcome = "skip" ->
                   \E cbThrows \in BOOLEAN :
                     /\ inv' = [inv EXCEPT ![i] =
                                  [started EXCEPT !.pc = IF cbThrows THEN "threw" ELSE "done",
                                                  !.err = IF cbThrows THEN "callback" ELSE "none"]]
                     /\ calls' = [calls EXCEPT ![i] =
                                    Append(@, Call(Null, f.userCode, f.userModuleSourceMap,
                                                   cbThrows))]
              [] OTHER ->
                   /\ inv' = [inv EXCEPT ![i] = [started EXCEPT !.pc = "linking",
                                                                !.link = "pending"]]
                   /\ UNCHANGED calls
  /\ UNCHANGED <<options, warnings, rt, sb, lk>>

\* The promise of wrapUserCode settles: fulfilled with output[0], or rejected
\* with what rollup or generate threw.
LinkSettle(i) ==
  /\ inv[i].pc = "linking"
  /\ LET r == WrapUserCode(inv[i].templateCode, inv[i].userCode, inv[i].userModuleSourceMap)
     IN  inv' = [inv EXCEPT ![i] =
                   IF r.ok THEN [@ EXCEPT !.pc = "fulfilled", !.link = "fulfilled", !.result = r]
                   ELSE [@ EXCEPT !.pc = "rejected", !.link = "rejected", !.err = r.err]]
  /\ UNCHANGED <<options, calls, warnings, templateCache, rt, sb, lk>>

\* .then(({ code, map }) => { this.callback(null, code, map) }): when the
\* callback throws, the promise of then rejects and the catch handler runs.
ThenHandler(i, cbThrows) ==
  /\ inv[i].pc = "fulfilled"
  /\ calls' = [calls EXCEPT ![i] =
                 Append(@, Call(Null, inv[i].result.code, inv[i].result.map, cbThrows))]
  /\ inv' = [inv EXCEPT ![i] = IF cbThrows THEN [@ EXCEPT !.pc = "rejected", !.err = "callback"]
                               ELSE [@ EXCEPT !.pc = "done"]]
  /\ UNCHANGED <<options, warnings, templateCache, rt, sb, lk>>

\* .catch(err => { console.warn(...); this.callback(null, userCode, userModuleSourceMap) })
CatchHandler(i, cbThrows) ==
  /\ inv[i].pc = "rejected"
  /\ warnings' = Append(warnings, [by |-> i, resourcePath |-> inv[i].resourcePath,
                                   err |-> inv[i].err])
  /\ calls' = [calls EXCEPT ![i] = Append(@, FallbackCall(i, cbThrows))]
  /\ inv' = [inv EXCEPT ![i] = [@ EXCEPT !.pc = IF cbThrows THEN "unhandled" ELSE "done"]]
  /\ UNCHANGED <<options, templateCache, rt, sb, lk>>

Next ==
  \E i \in Invocations :
    \/ /\ inv[i].pc = "idle"
       /\ \E f \in LoaderFiles(options) : Invoke(i, f)
    \/ LinkSettle(i)
    \/ \E cbThrows \in BOOLEAN : ThenHandler(i, cbThrows)
    \/ \E cbThrows \in BOOLEAN : CatchHandler(i, cbThrows)

Spec == Init /\ [][Next]_vars

\* ------------------------------------------------------------------ properties of the loader

WarningsOf(i) == SelectSeq(warnings, LAMBDA w : w.by = i)

\* The call that hands the loader's own input back to the host.
IsOriginal(i, c) ==
  c.err = Null /\ c.code = inv[i].userCode /\ c.map = inv[i].userModuleSourceMap

\* C1: when wrapUserCode rejects, the callback gets a null error and exactly
\* the input code and source map, and one diagnostic names the file and the error.
C1_FallbackOnLinkFailure ==
  \A i \in Invocations :
    inv[i].link = "rejected" =>
      \/ /\ inv[i].pc = "rejected"
         /\ calls[i] = <<>>
         /\ WarningsOf(i) = <<>>
      \/ /\ inv[i].pc \in {"done", "unhandled"}
         /\ Len(calls[i]) = 1
         /\ IsOriginal(i, calls[i][1])
         /\ Len(WarningsOf(i)) = 1
         /\ WarningsOf(i)[1].resourcePath = inv[i].resourcePath
         /\ WarningsOf(i)[1].err = inv[i].err

\* A link pass that failed and whose fallback has been delivered.
C1_Witness ==
  \E i \in Invocations :
    inv[i].link = "rejected" /\ inv[i].pc = "done" /\ Len(calls[i]) = 1

\* C2: an error of any stage (building the extension pattern, the link pass)
\* never leaves wrappingLoader as an exception and never reaches the host as
\* a callback error: the original code and source map are delivered instead.
C2_NoErrorEscapes ==
  \A i \in Invocations :
    inv[i].err \in {"SyntaxError", "parse error", "could not resolve"} =>
      /\ inv[i].pc # "threw"
      /\ \A k \in 1..Len(calls[i]) : calls[i][k].err = Null
      /\ inv[i].pc \in {"done", "unhandled"} =>
           Len(calls[i]) >= 1 /\ IsOriginal(i, calls[i][Len(calls[i])])

\* C3: an excluded route gets its input back and nothing else happens: no
\* template, no link pass, no diagnostic.
C3_ExclusionShortCircuit ==
  \A i \in Invocations :
    (/\ inv[i].pc # "idle"
     /\ inv[i].route # Null
     /\ StringMatchesSomePattern(inv[i].route, options.excludeServerRoutes, TRUE)) =>
      /\ Len(calls[i]) = 1
      /\ IsOriginal(i, calls[i][1])
      /\ inv[i].template = "none"
      /\ inv[i].templateCode = Null
      /\ inv[i].link = "none"
      /\ WarningsOf(i) = <<>>

\* The API route excluded by the string rule, handed back to the host.
C3_Witness ==
  \E i \in Invocations :
    /\ inv[i].pc = "done"
    /\ inv[i].route = <<"/", "a", "p", "i", "/", "u", "s", "e", "r", "s">> (* /api/users *)
    /\ StringMatchesSomePattern(inv[i].route, options.excludeServerRoutes, TRUE)
    /\ Len(calls[i]) = 1

\* The wrapper text an invocation builds from its own file alone.
OwnWrapperCode(i) ==
  LET route == ParameterizedRoute(options.sep, options.pagesDir, inv[i].resourcePath,
                                  options.pageExtensionRegex)
  IN  InjectTarget(InjectRoute(
        TemplateAssets[SelectTemplate(options.sep, options.pagesDir, inv[i].resourcePath, route)],
        route))

\* C9: the cached templates never change, and every callback gets its own
\* invocation's input or the bundle of its own wrapper text, code and map.
C9_Isolation ==
  /\ templateCache = TemplateAssets
  /\ \A i \in Invocations : \A k \in 1..Len(calls[i]) :
       LET c == calls[i][k]
       IN  \/ IsOriginal(i, c)
           \/ /\ c.err = Null
              /\ c.code[1] = "bundle"
              /\ c.code[2].modules[SENTRY_WRAPPER_MODULE_NAME] = OwnWrapperCode(i)
              /\ c.code[2].modules[WRAPPING_TARGET_MODULE_NAME] = inv[i].userCode
              /\ c.map[2].sources[WRAPPING_TARGET_MODULE_NAME] = inv[i].userModuleSourceMap

\* Two invocations on different files, linked while the other was in
\* flight, each delivered its own bundle.
C9_Witness ==
  \E i, j \in Invocations :
    /\ inv[i].resourcePath # inv[j].resourcePath
    /\ inv[i].template = "api" /\ inv[j].template = "middleware"
    /\ inv[i].pc = "done" /\ inv[j].pc = "done"
    /\ Len(calls[i]) = 1 /\ calls[i][1].code[1] = "bundle"
    /\ Len(calls[j]) = 1 /\ calls[j][1].code[1] = "bundle"

\* C10: the host callback is called exactly once per invocation, also when
\* it throws while the link result is delivered.
C10_ExactlyOnce ==
  \A i \in Invocations :
    /\ Len(calls[i]) <= 1
    /\ inv[i].pc \in {"done", "unhandled"} => Len(calls[i]) = 1

\* ------------------------------------------------------------------ properties of the classifier

IsMiddlewareFile(r) ==
  LET d == Segments(r.pagesDir, r.sep)
      p == Segments(r.resourcePath, r.sep)
  IN  /\ Len(p) = Len(d)
      /\ SubSeq(p, 1, Len(p) - 1) = SubSeq(d, 1, Len(d) - 1)
      /\ p[Len(p)] \in {<<"m", "i", "d", "d", "l", "e", "w", "a", "r", "e", ".", "j", "s">> (* middleware.js *), <<"m", "i", "d", "d", "l", "e", "w", "a", "r", "e", ".", "t", "s">> (* middleware.ts *)}

\* C4: exactly one template is selected: the API template when the route
\* starts with /api, else the middleware template for the two middleware
\* files beside pagesDir, else the page template.
C4_RoleSelection ==
  rt.phase = "classified" =>
    LET api == StartsWith(rt.route, <<"/", "a", "p", "i">> (* /api *))
        mw == IsMiddlewareFile(rt)
    IN  /\ rt.template \in {"api", "middleware", "page"}
        /\ rt.template = "api" <=> api
        /\ rt.template = "middleware" <=> (~api /\ mw)
        /\ rt.template = "page" <=> (~api /\ ~mw)

\* The middleware.js beside pagesDir, classified.
C4_Witness ==
  /\ rt.phase = "classified"
  /\ rt.template = "middleware"
  /\ EndsWith(rt.resourcePath, <<"m", "i", "d", "d", "l", "e", "w", "a", "r", "e", ".", "j", "s">> (* middleware.js *))

UnderRoot(r) ==
  LET d == Segments(r.pagesDir, r.sep)
      p == Segments(r.resourcePath, r.sep)
  IN  Len(p) > Len(d) /\ SubSeq(p, 1, Len(d)) = d

\* C5: the route of a file under the root has forward slashes only and no
\* trailing extension.
C5_ForwardSlashesNoExtension ==
  (rt.phase = "classified" /\ UnderRoot(rt)) =>
    /\ \A k \in 1..Len(rt.route) : rt.route[k] # "\\"
    /\ ~HasPageExtension(rt.route, rt.pageExtensionRegex)

\* C6: a last segment index is dropped, a last segment that only ends in
\* index stays, an empty path is the root route, anything else is kept, and
\* the route begins with a slash.
C6_IndexAndRoot ==
  (rt.phase = "classified" /\ UnderRoot(rt)) =>
    LET e == StripExtension(AddSlash(PathRelative(rt.sep, rt.pagesDir, rt.resourcePath)),
                            rt.pageExtensionRegex)
        segs == SplitOn(e, PathSeps(rt.sep))
    IN  /\ rt.route[1] = "/"
        /\ rt.route = IF segs[Len(segs)] = <<"i", "n", "d", "e", "x">> (* index *)
                        THEN RootIfEmpty(SubSeq(e, 1, Len(e) - 6))
                        ELSE RootIfEmpty(e)

====
